---- MODULE Spec2Model ----
(***************************************************************************)
(* Model of the Leaf ui-client session actions                             *)
(* (src/ui-client/src/actions/session.ts): the bootstrap pipeline          *)
(* attestAndLoadSession, the partner fan-out getResponderIdentities, the   *)
(* continuity check handleSessionReload, and logout.                       *)
(*                                                                         *)
(* Every action is one synchronous block of the code: the statements       *)
(* between two suspension points (await / promise callback).               *)
(***************************************************************************)
EXTENDS Integers, Sequences, FiniteSets, TLC

(***************************************************************************)
(* Bounds                                                                  *)
(***************************************************************************)
\* largest number of partner descriptors the home server returns
MaxPartners == 3

\* largest number of times the refresh timer fires
MaxRefreshes == 2

(***************************************************************************)
(* Action type constants, session.ts:36-40                                 *)
(***************************************************************************)
SUBMIT_ATTESTATION == "SUBMIT_ATTESTATION"
ERROR_ATTESTATION == "ERROR_ATTESTATION"
COMPLETE_ATTESTATION == "COMPLETE_ATTESTATION"
SET_SESSION_LOAD_STATE == "SET_SESSION_LOAD_STATE"
SET_ACCESS_TOKEN == "SET_ACCESS_TOKEN"

(***************************************************************************)
(* Synchronous action creators, session.ts:245-279                         *)
(***************************************************************************)
errorAttestation(error) == [error |-> error, type |-> ERROR_ATTESTATION]

submitAttestation(a) == [attestation |-> a, type |-> SUBMIT_ATTESTATION]

setSessionContext(context) == [context |-> context, type |-> SET_ACCESS_TOKEN]

completeAttestation(nonce) == [nonce |-> nonce, type |-> COMPLETE_ATTESTATION]

setSessionLoadState(display, percent) ==
    [sessionLoadDisplay |-> display,
     sessionLoadProgressPercent |-> percent,
     type |-> SET_SESSION_LOAD_STATE]

\* An action built by a creator of another module (setResponders,
\* setExportOptions, ...): only its creator and its argument are recorded.
foreignAction(creator, arg) == [type |-> creator, arg |-> arg]

\* message of the catch block, session.ts:145
ErrorMessage == "Uh oh. Something went wrong while loading Leaf information from the server. Please contact your Leaf administrator."

(***************************************************************************)
(* Strings are sequences of characters, so that endsWith / substring are   *)
(* computed and not assumed.                                               *)
(***************************************************************************)
endsWithSlash(s) == Len(s) > 0 /\ s[Len(s)] = "/"

\* variant of removeTrailingSlash that removes every trailing slash
RECURSIVE removeEveryTrailingSlash(_)
removeEveryTrailingSlash(address) ==
    IF endsWithSlash(address)
    THEN removeEveryTrailingSlash(SubSeq(address, 1, Len(address) - 1))
    ELSE address

\* session.ts:162-164
removeTrailingSlash(address) ==
    IF endsWithSlash(address) THEN SubSeq(address, 1, Len(address) - 1)
    ELSE address

(***************************************************************************)
(* Inputs                                                                  *)
(***************************************************************************)
\* the configured id of the k-th partner descriptor; it is no function of
\* the descriptor's position that could be mistaken for index + 1
PartnerId(k) == 3 * k + 4

\* the configured address of the k-th partner descriptor
PartnerAddress(k) ==
    IF k % 3 = 1 THEN <<"a", "/">>
    ELSE IF k % 3 = 2 THEN <<"a">>
    ELSE <<"c", "/", "/">>

\* NetworkIdentityResponseDTO of the k-th configured partner
PartnerDescriptor(k) == [id |-> PartnerId(k), address |-> PartnerAddress(k)]

\* the home node's identity as fetchHomeIdentityAndResponders delivers it
HomeIdentity ==
    [name |-> "home", id |-> 0, isHomeNode |-> TRUE, enabled |-> TRUE,
     address |-> <<>>]

\* NetworkIdentityRespondersDTO with n configured partners
HomeBase(n) ==
    [identity |-> HomeIdentity,
     responders |-> [k \in 1..n |-> PartnerDescriptor(k)]]

\* what a partner answers to fetchResponderIdentity: response.data carries
\* the partner's own idea of id / address / isHomeNode, which the spread at
\* session.ts:169 overrides
ResponseData(k) ==
    [name |-> k, id |-> 0, isHomeNode |-> TRUE, enabled |-> FALSE,
     address |-> <<"x">>]

\* SessionContext values the token service may return; the last one lacks
\* rawDecoded, which the cast at session.ts:64 does not check
SessionContexts ==
    { [token |-> "t1", rawDecoded |-> [accessNonce |-> "n1"]],
      [token |-> "t2", rawDecoded |-> [accessNonce |-> "n2"]],
      [token |-> "t3"] }

\* new Date().getTime() at the time handleSessionReload runs, milliseconds
NowMillis == 40000500

\* age in seconds (relative to NowMillis rounded down to a second) of the
\* previous-session snapshots that are tried
ElapsedSeconds == {-120, -1, 0, 59, 60, 119, 120, 2700, 28799, 28800, 30000}

\* a saved session as getPrevSession returns it
SavedSession(e) ==
    [timestamp |-> (NowMillis \div 1000) - e,
     queries |-> [current |-> "prevQuery"],
     panels |-> "prevPanels",
     panelFilters |-> "prevPanelFilters"]

\* the content of the previous-session store: nothing, a record that
\* getPrevSession cannot read (it throws), or a saved session
PrevStores ==
    { [kind |-> "none"], [kind |-> "unreadable"] }
    \cup { [kind |-> "saved", session |-> SavedSession(e)] : e \in ElapsedSeconds }

\* fetchHomeIdentityAndResponders results: n configured partners, or a body
\* without the responders list (the cast at session.ts:72 does not check)
HomeBases ==
    { HomeBase(n) : n \in 0..MaxPartners } \cup { [identity |-> HomeIdentity] }

(***************************************************************************)
(* State                                                                   *)
(***************************************************************************)
VARIABLES
    pc,            \* where attestAndLoadSession is suspended
    attestation,   \* the Attestation passed to attestAndLoadSession
    userContext,   \* getState().auth.userContext
    ctx,           \* const ctx of attestAndLoadSession (stage 1)
    homeBase,      \* const homeBase; its descriptors are mutated in place
    responders,    \* the local array of getResponderIdentities
    task,          \* per partner index: state of its promise chain
    fetched,       \* addresses fetchResponderIdentity was called with
    succeeded,     \* partner indexes whose fetch was fulfilled
    failed,        \* partner indexes whose fetch was rejected
    errorReports,  \* actions built by errorResponder, in call order
    returned,      \* value getResponderIdentities returned (<<>>: not yet)
    dispatched,    \* every action passed to dispatch, in order
    prevStore,     \* content of the previous-session store
    lpc,           \* where logout is suspended
    config,        \* getState().auth.config.authentication
    cachedToken,   \* whether a user token is cached locally
    serverCalls,   \* number of calls of logoutFromServer
    blacklisted,   \* whether the server blacklisted the session's tokens
    reply,         \* the settled result of logoutFromServer, not yet consumed
    loggedOut,     \* const loggedOut of logout
    clearCalls,    \* number of calls of clearCurrentUserToken
    location,      \* what logout did to window.location
    storeContext,  \* getState().session.context, set by SET_ACCESS_TOKEN
    rpc,           \* where refreshSession is suspended
    refreshes,     \* number of calls of refreshSession so far
    modalChoice,   \* the user's answer to the resume confirmation
    active         \* the active query, panels and panel-filter states

bootVars ==
    <<pc, attestation, userContext, ctx, homeBase, responders, task, fetched,
      succeeded, failed, errorReports, returned, dispatched, prevStore>>

logoutVars ==
    <<lpc, config, cachedToken, serverCalls, blacklisted, reply, loggedOut,
      clearCalls, location>>

refreshVars == <<rpc, refreshes>>

uiVars == <<modalChoice, active>>

vars == <<bootVars, logoutVars, storeContext, refreshVars, uiVars>>

fanoutVars ==
    <<responders, task, fetched, succeeded, failed, errorReports, returned>>

\* everything attestAndLoadSession and getResponderIdentities leave alone
restVars == <<logoutVars, storeContext, refreshVars, uiVars>>

\* value of a local that has not been assigned yet
Undefined == [undefined |-> TRUE]

(***************************************************************************)
(* getResponderIdentities, session.ts:152-176                              *)
(***************************************************************************)
\* variant of InitialResponders that starts from an empty array
InitialRespondersWithoutHome(homebase) == <<>>

\* session.ts:153
InitialResponders(homebase) == <<homebase.identity>>

\* variant of FederationGate that does not consult the user's policy
FederationGateIgnoresPolicy(att, homebase, uc) ==
    /\ ~att.isIdentified
    /\ Len(homebase.responders) # 0

\* session.ts:155; a missing responders list was excluded by the caller
FederationGate(att, homebase, uc) ==
    /\ ~att.isIdentified
    /\ Len(homebase.responders) # 0
    /\ uc.isFederatedOkay

\* session.ts:155: evaluating the condition throws a TypeError when the
\* responders list is missing and the first conjunct does not short-circuit
GateThrows(att, homebase) ==
    ~att.isIdentified /\ "responders" \notin DOMAIN homebase

\* variant of ResponderId without the offset that reserves id 0
ResponderIdWithoutOffset(index) == index

\* variant of ResponderId that offsets the index by 2
ResponderIdOffsetByTwo(index) == index + 2

\* session.ts:169, id: (id + 1) with id the index given by Array.map
ResponderId(index) == index + 1

\* session.ts:169, the object pushed for the descriptor nr at map index
\* `index` answering with `data`: the later keys override the spread
MakeResponder(data, nr, index) ==
    [name |-> data.name, address |-> nr.address, enabled |-> TRUE,
     id |-> ResponderId(index), isHomeNode |-> FALSE]

\* errorResponder(nr.id, error), session.ts:170
errorResponder(id) == [type |-> "ERROR_RESPONDER", id |-> id]

\* session.ts:162-164 applied to every descriptor by the map callback
Normalized(descriptors) ==
    [k \in DOMAIN descriptors |->
        [descriptors[k] EXCEPT !.address = removeTrailingSlash(@)]]

(***************************************************************************)
(* attestAndLoadSession, session.ts:56-150                                 *)
(***************************************************************************)
\* variant of CatchBlock that leaves the load state as it is
CatchBlockKeepsProgress(log) == log \o <<errorAttestation(TRUE)>>

\* variant of CatchBlock that reports the attestation as not errored
CatchBlockWithoutErrorFlag(log) ==
    log \o <<setSessionLoadState(ErrorMessage, 0), errorAttestation(FALSE)>>

\* the catch block, session.ts:143-148
CatchBlock(log) ==
    log \o <<setSessionLoadState(ErrorMessage, 0), errorAttestation(TRUE)>>

\* the state before attestAndLoadSession is called, given its inputs
BootInit(att, uc, store) ==
    /\ pc = "start"
    /\ attestation = att
    /\ userContext = uc
    /\ ctx = Undefined
    /\ homeBase = Undefined
    /\ responders = <<>>
    /\ task = <<>>
    /\ fetched = <<>>
    /\ succeeded = {}
    /\ failed = {}
    /\ errorReports = <<>>
    /\ returned = <<>>
    /\ dispatched = <<>>
    /\ prevStore = store

\* session.ts:62-64, up to the first await
SubmitAttestation ==
    /\ pc = "start"
    /\ dispatched' = <<setSessionLoadState("Submitting Attestation", 5),
                       submitAttestation(attestation)>>
    /\ pc' = "getSessionTokenAndContext"
    /\ UNCHANGED <<attestation, userContext, ctx, homeBase, fanoutVars, prevStore, restVars>>

\* session.ts:64-72
GetSessionTokenAndContextResolved ==
    /\ pc = "getSessionTokenAndContext"
    /\ \E c \in SessionContexts :
        /\ ctx' = c
        /\ storeContext' = c
        /\ dispatched' = dispatched \o
               <<setSessionContext(c),
                 foreignAction("setUserInquiryState", FALSE),
                 setSessionLoadState("Finding Home Leaf server", 10)>>
    /\ pc' = "fetchHomeIdentityAndResponders"
    /\ UNCHANGED <<attestation, userContext, homeBase, fanoutVars, prevStore, logoutVars,
                   refreshVars, uiVars>>

\* session.ts:72-81 and the synchronous part of getResponderIdentities,
\* session.ts:153-173: every fetch is launched inside the map callback
FetchHomeIdentityAndRespondersResolved ==
    /\ pc = "fetchHomeIdentityAndResponders"
    /\ \E hb \in HomeBases :
        LET log == dispatched \o
                   (IF userContext.isAdmin
                    THEN <<foreignAction("setAdminNetworkIdentity", hb.identity)>>
                    ELSE <<>>) \o
                   <<setSessionLoadState("Finding Partner Leaf servers", 20)>>
        IN
        IF GateThrows(attestation, hb)
        THEN /\ homeBase' = hb
             /\ dispatched' = CatchBlock(log)
             /\ pc' = "error"
             /\ UNCHANGED fanoutVars
        ELSE /\ dispatched' = log
             /\ pc' = "getResponderIdentities"
             /\ responders' = InitialResponders(hb)
             /\ IF FederationGate(attestation, hb, userContext)
                THEN /\ homeBase' = [hb EXCEPT !.responders = Normalized(@)]
                     /\ task' = [k \in DOMAIN hb.responders |-> "pending"]
                     /\ fetched' = [k \in DOMAIN hb.responders |->
                                       removeTrailingSlash(hb.responders[k].address)]
                ELSE /\ homeBase' = hb
                     /\ task' = <<>>
                     /\ fetched' = <<>>
             /\ UNCHANGED <<succeeded, failed, errorReports, returned>>
    /\ UNCHANGED <<attestation, userContext, ctx, prevStore, restVars>>

\* session.ts:169, the fulfilment callback of fetchResponderIdentity
FetchResponderIdentityFulfilled(k) ==
    /\ pc = "getResponderIdentities"
    /\ k \in DOMAIN task /\ task[k] = "pending"
    /\ responders' = Append(responders,
                            MakeResponder(ResponseData(k), homeBase.responders[k], k - 1))
    /\ task' = [task EXCEPT ![k] = "pushed"]
    /\ succeeded' = succeeded \cup {k}
    /\ UNCHANGED <<pc, attestation, userContext, ctx, homeBase, fetched, failed,
                   errorReports, returned, dispatched, prevStore, restVars>>

\* variant of FetchResponderIdentityRejected in which the rejection reaches
\* Promise.all and the aggregate is rejected (fail fast)
FetchResponderIdentityRejectedFailsFast(k) ==
    /\ pc = "getResponderIdentities"
    /\ k \in DOMAIN task /\ task[k] = "pending"
    /\ task' = [task EXCEPT ![k] = "reported"]
    /\ failed' = failed \cup {k}
    /\ dispatched' = CatchBlock(dispatched)
    /\ pc' = "error"
    /\ UNCHANGED <<attestation, userContext, ctx, homeBase, responders, fetched,
                   succeeded, errorReports, returned, prevStore, restVars>>

\* session.ts:170, the rejection callback of fetchResponderIdentity
FetchResponderIdentityRejected(k) ==
    /\ pc = "getResponderIdentities"
    /\ k \in DOMAIN task /\ task[k] = "pending"
    /\ errorReports' = Append(errorReports, errorResponder(homeBase.responders[k].id))
    /\ task' = [task EXCEPT ![k] = "reported"]
    /\ failed' = failed \cup {k}
    /\ UNCHANGED <<pc, attestation, userContext, ctx, homeBase, responders, fetched,
                   succeeded, returned, dispatched, prevStore, restVars>>

\* session.ts:170-171, the rejection callback when errorResponder throws:
\* the promise returned by the first then is rejected, the handler holding
\* resolve() is skipped, and the wrapping promise is never settled
FetchResponderIdentityRejectedReporterThrows(k) ==
    /\ pc = "getResponderIdentities"
    /\ k \in DOMAIN task /\ task[k] = "pending"
    /\ task' = [task EXCEPT ![k] = "threw"]
    /\ failed' = failed \cup {k}
    /\ UNCHANGED <<pc, attestation, userContext, ctx, homeBase, responders, fetched,
                   succeeded, errorReports, returned, dispatched, prevStore, restVars>>

\* session.ts:171, .then(() => resolve())
ResolveTask(k) ==
    /\ pc = "getResponderIdentities"
    /\ k \in DOMAIN task /\ task[k] \in {"pushed", "reported"}
    /\ task' = [task EXCEPT ![k] = "resolved"]
    /\ UNCHANGED <<pc, attestation, userContext, ctx, homeBase, responders, fetched,
                   succeeded, failed, errorReports, returned, dispatched, prevStore, restVars>>

\* variant of PromiseAllFulfilled that is satisfied by the first promise
\* resolved (Promise.race)
PromiseRaceFulfilled(tasks) ==
    tasks = <<>> \/ \E k \in DOMAIN tasks : tasks[k] = "resolved"

\* session.ts:157: Promise.all over the promises of the map is fulfilled
\* when each of them has been resolved (none of them is ever rejected)
PromiseAllFulfilled(tasks) == \A k \in DOMAIN tasks : tasks[k] = "resolved"

\* session.ts:157 (Promise.all fulfilled), 175, and 81-89
GetResponderIdentitiesReturned ==
    /\ pc = "getResponderIdentities"
    /\ PromiseAllFulfilled(task)
    /\ returned' = responders
    /\ dispatched' = dispatched \o
           <<foreignAction("setResponders", responders),
             foreignAction("registerNetworkCohorts", responders),
             setSessionLoadState("Loading Export options", 30)>>
    /\ pc' = "getExportOptions"
    /\ UNCHANGED <<attestation, userContext, ctx, homeBase, responders, task, fetched,
                   succeeded, failed, errorReports, prevStore, restVars>>

\* variant of GetExportOptionsResolved that announces stage 5 before it
\* dispatches the result of stage 4
GetExportOptionsResolvedAnnouncesFirst ==
    /\ pc = "getExportOptions"
    /\ dispatched' = dispatched \o
           <<setSessionLoadState("Loading Import options", 40),
             foreignAction("setExportOptions", "exportOptions")>>
    /\ pc' = "getImportOptions"
    /\ UNCHANGED <<attestation, userContext, ctx, homeBase, fanoutVars, prevStore, restVars>>

\* session.ts:89-96
GetExportOptionsResolved ==
    /\ pc = "getExportOptions"
    /\ dispatched' = dispatched \o
           <<foreignAction("setExportOptions", "exportOptions"),
             setSessionLoadState("Loading Import options", 40)>>
    /\ pc' = "getImportOptions"
    /\ UNCHANGED <<attestation, userContext, ctx, homeBase, fanoutVars, prevStore, restVars>>

\* session.ts:96-104
GetImportOptionsResolved ==
    /\ pc = "getImportOptions"
    /\ dispatched' = dispatched \o
           <<foreignAction("setImportOptions", "importOptions"),
             setSessionLoadState("Loading Concepts", 50)>>
    /\ pc' = "requestRootConcepts"
    /\ UNCHANGED <<attestation, userContext, ctx, homeBase, fanoutVars, prevStore, restVars>>

\* session.ts:104-110
RequestRootConceptsResolved ==
    /\ pc = "requestRootConcepts"
    /\ dispatched' = dispatched \o
           <<setSessionLoadState("Loading Patient List Datasets", 60)>>
    /\ pc' = "fetchAvailableDatasets"
    /\ UNCHANGED <<attestation, userContext, ctx, homeBase, fanoutVars, prevStore, restVars>>

\* session.ts:110-111
FetchAvailableDatasetsResolved ==
    /\ pc = "fetchAvailableDatasets"
    /\ pc' = "indexDatasets"
    /\ UNCHANGED <<attestation, userContext, ctx, homeBase, fanoutVars, dispatched,
                   prevStore, restVars>>

\* session.ts:111-118
IndexDatasetsResolved ==
    /\ pc = "indexDatasets"
    /\ dispatched' = dispatched \o
           <<foreignAction("setDatasets", "datasets"),
             setSessionLoadState("Loading Saved Queries", 70)>>
    /\ pc' = "getSavedQueries"
    /\ UNCHANGED <<attestation, userContext, ctx, homeBase, fanoutVars, prevStore, restVars>>

\* session.ts:118-125
GetSavedQueriesResolved ==
    /\ pc = "getSavedQueries"
    /\ dispatched' = dispatched \o
           <<foreignAction("addSavedQueries", "savedCohorts"),
             setSessionLoadState("Loading Extension Concepts", 80)>>
    /\ pc' = "getExtensionRootConcepts"
    /\ UNCHANGED <<attestation, userContext, ctx, homeBase, fanoutVars, prevStore, restVars>>

\* variant of GetExtensionRootConceptsResolved that marks the attestation
\* complete before the search engine is initialized
GetExtensionRootConceptsResolvedCompletesEarly ==
    /\ pc = "getExtensionRootConcepts"
    /\ dispatched' = dispatched \o
           <<foreignAction("setExtensionRootConcepts", "extensionConcepts"),
             setSessionLoadState("Initializing Search Engine", 100),
             completeAttestation("early")>>
    /\ pc' = "initializeSearchEngine"
    /\ UNCHANGED <<attestation, userContext, ctx, homeBase, fanoutVars, prevStore, restVars>>

\* session.ts:125-132
GetExtensionRootConceptsResolved ==
    /\ pc = "getExtensionRootConcepts"
    /\ dispatched' = dispatched \o
           <<foreignAction("setExtensionRootConcepts", "extensionConcepts"),
             setSessionLoadState("Initializing Search Engine", 100)>>
    /\ pc' = "initializeSearchEngine"
    /\ UNCHANGED <<attestation, userContext, ctx, homeBase, fanoutVars, prevStore, restVars>>

(***************************************************************************)
(* handleSessionReload, session.ts:285-312                                 *)
(***************************************************************************)
\* session.ts:288, Math.floor(((new Date().getTime() / 1000) - prev.timestamp) / 60)
\* computed in milliseconds, which keeps the fraction of getTime() / 1000
DiffMinutes(nowMillis, timestamp) == (nowMillis - 1000 * timestamp) \div 60000

\* variant of DiffDisplay without the singular form
DiffDisplayWithoutSingular(diffMinutes) ==
    IF diffMinutes = 0 THEN <<"less than a minute ago">>
    ELSE <<"about ", diffMinutes, " minutes ago">>

\* session.ts:289-292; the template literal is kept as its parts
DiffDisplay(diffMinutes) ==
    IF diffMinutes = 0 THEN <<"less than a minute ago">>
    ELSE IF diffMinutes = 1 THEN <<"about 1 minute ago">>
    ELSE <<"about ", diffMinutes, " minutes ago">>

\* variant of OfferWindow that includes the 480th minute
OfferWindowInclusive(diffMinutes) == diffMinutes <= 60 * 8

\* session.ts:299
OfferWindow(diffMinutes) == diffMinutes < 60 * 8

\* session.ts:300-308; onClickYes closes over prev
ConfirmationModal(prev, diffDisplay) ==
    [body |-> <<"Do you want to resume your previous session (saved ",
                diffDisplay, ")?">>,
     header |-> "Continue previous session",
     onClickNo |-> "null",
     onClickYes |-> [queries |-> prev.queries, panels |-> prev.panels,
                     panelFilters |-> prev.panelFilters],
     show |-> TRUE,
     noButtonText |-> "No, I'll start fresh",
     yesButtonText |-> "Yes, load my previous query"]

\* getPrevSession(state) throws, session.ts:286
PrevSessionThrows(store) == store.kind = "unreadable"

\* the actions handleSessionReload dispatches when getPrevSession returns,
\* session.ts:287-311
SessionReloadDispatches(store, nowMillis) ==
    IF store.kind = "saved"
    THEN LET prev == store.session
             diffMinutes == DiffMinutes(nowMillis, prev.timestamp)
         IN IF OfferWindow(diffMinutes)
            THEN <<foreignAction("showConfirmationModal",
                                 ConfirmationModal(prev, DiffDisplay(diffMinutes)))>>
            ELSE <<>>
    ELSE <<>>

\* ctx.rawDecoded["access-nonce"] throws, session.ts:137
NonceThrows(c) == "rawDecoded" \notin DOMAIN c

\* variant of NonceContext that reads the context kept in the store
NonceContextFromStore(local, stored) == stored

\* session.ts:137: the context whose nonce completeAttestation carries is
\* the const ctx of stage 1, not getState().session.context
NonceContext(local, stored) == local

\* session.ts:132-142: completeAttestation and handleSessionReload run in
\* the same synchronous block, inside the try
InitializeSearchEngineResolved ==
    /\ pc = "initializeSearchEngine"
    /\ IF NonceThrows(NonceContext(ctx, storeContext))
       THEN /\ dispatched' = CatchBlock(dispatched)
            /\ pc' = "error"
       ELSE LET log == dispatched \o
                       <<completeAttestation(
                             NonceContext(ctx, storeContext).rawDecoded.accessNonce)>>
            IN IF PrevSessionThrows(prevStore)
               THEN /\ dispatched' = CatchBlock(log)
                    /\ pc' = "error"
               ELSE /\ dispatched' = log \o SessionReloadDispatches(prevStore, NowMillis)
                    /\ pc' = "done"
    /\ UNCHANGED <<attestation, userContext, ctx, homeBase, fanoutVars, prevStore, restVars>>

\* the awaits of attestAndLoadSession whose promise may be rejected
RejectableAwaits ==
    {"getSessionTokenAndContext", "fetchHomeIdentityAndResponders",
     "getExportOptions", "getImportOptions", "requestRootConcepts",
     "fetchAvailableDatasets", "indexDatasets", "getSavedQueries",
     "getExtensionRootConcepts", "initializeSearchEngine"}

\* session.ts:143-148: the awaited promise is rejected
AwaitRejected ==
    /\ pc \in RejectableAwaits
    /\ dispatched' = CatchBlock(dispatched)
    /\ pc' = "error"
    /\ UNCHANGED <<attestation, userContext, ctx, homeBase, fanoutVars, prevStore, restVars>>

(***************************************************************************)
(* logout, session.ts:202-242                                              *)
(***************************************************************************)
\* AuthMechanismType.Unsecured, session.ts:29 and 208
Unsecured == "Unsecured"

\* the authentication mechanisms a configuration may name
AuthMechanismTypes == {Unsecured, "Saml2", "ActiveDirectory"}

\* an absent (undefined) URI
NoUri == "<undefined>"

\* logout URIs a configuration may carry: absent, empty, or a URI
ConfiguredUris == {NoUri, "", "https://app.example/bye"}

\* logout URIs a server result may carry: absent, empty, or a URI
ServerUris == {NoUri, "", "https://idp.example/logout"}

\* the values of state.auth.config.authentication
AuthConfigs == [mechanism : AuthMechanismTypes, logoutUri : ConfiguredUris]

\* JavaScript truthiness of an optional string, session.ts:231
Truthy(uri) == uri # NoUri /\ uri # ""

\* results of logoutFromServer: null when the server could not be reached
\* or refused, else the server's LogoutDTO
LogoutResults ==
    { [kind |-> "null"] } \cup { [kind |-> "object", logoutURI |-> u] : u \in ServerUris }

\* variant of IsSecured that treats every mechanism as secured
IsSecuredAlways(cfg) == TRUE

\* session.ts:208
IsSecured(cfg) == cfg.mechanism # Unsecured

\* session.ts:206 and 223-225: the URI logout ends up with
RedirectUri(configured, result) ==
    IF result.kind = "object" THEN result.logoutURI ELSE configured

\* session.ts:231-240
Redirect(uri) ==
    IF Truthy(uri) THEN [kind |-> "assigned", uri |-> uri]
    ELSE [kind |-> "reload"]

\* the state before logout is called, given its inputs
LogoutInit(cfg, token) ==
    /\ lpc = "start"
    /\ config = cfg
    /\ cachedToken = token
    /\ serverCalls = 0
    /\ blacklisted = FALSE
    /\ reply = Undefined
    /\ loggedOut = Undefined
    /\ clearCalls = 0
    /\ location = [kind |-> "app"]

\* session.ts:204-213, and 231-240 when the mechanism is unsecured
LogoutBegin ==
    /\ lpc = "start"
    /\ IF IsSecured(config)
       THEN /\ serverCalls' = serverCalls + 1
            /\ lpc' = "logoutFromServer"
            /\ UNCHANGED location
       ELSE /\ location' = Redirect(config.logoutUri)
            /\ lpc' = "done"
            /\ UNCHANGED serverCalls
    /\ UNCHANGED <<config, cachedToken, blacklisted, reply, loggedOut, clearCalls,
                   bootVars, storeContext, refreshVars, uiVars>>

\* logoutFromServer settles: the server blacklisted the tokens and answered,
\* or the call failed and logoutFromServer returns null
LogoutFromServerSettles ==
    /\ lpc = "logoutFromServer"
    /\ reply = Undefined
    /\ \E r \in LogoutResults :
        /\ reply' = r
        /\ blacklisted' = (r.kind = "object")
    /\ UNCHANGED <<lpc, config, cachedToken, serverCalls, loggedOut, clearCalls,
                   location, bootVars, storeContext, refreshVars, uiVars>>

\* variant of LogoutFromServerReturned that cleans up and redirects only
\* when the server-side logout returned a result
LogoutFromServerReturnedStopsOnFailure ==
    /\ lpc = "logoutFromServer"
    /\ reply # Undefined
    /\ loggedOut' = reply
    /\ IF reply.kind = "object"
       THEN /\ cachedToken' = FALSE
            /\ clearCalls' = clearCalls + 1
            /\ location' = Redirect(RedirectUri(config.logoutUri, reply))
       ELSE UNCHANGED <<cachedToken, clearCalls, location>>
    /\ lpc' = "done"
    /\ UNCHANGED <<config, serverCalls, blacklisted, reply, bootVars, storeContext, refreshVars, uiVars>>

\* session.ts:213-240
LogoutFromServerReturned ==
    /\ lpc = "logoutFromServer"
    /\ reply # Undefined
    /\ loggedOut' = reply
    /\ cachedToken' = FALSE
    /\ clearCalls' = clearCalls + 1
    /\ location' = Redirect(RedirectUri(config.logoutUri, reply))
    /\ lpc' = "done"
    /\ UNCHANGED <<config, serverCalls, blacklisted, reply, bootVars, storeContext, refreshVars, uiVars>>

(***************************************************************************)
(* The resume confirmation's callbacks, session.ts:293-297 and 303         *)
(***************************************************************************)
\* variant of onClickYes that does not restore the panel-filter states
onClickYesWithoutPanelFilters(prev) ==
    <<foreignAction("setCurrentQuery", prev.queries.current),
      foreignAction("setPanels", prev.panels)>>

\* session.ts:293-297: the actions onClickYes dispatches, prev being the
\* snapshot the closure holds
onClickYes(prev) ==
    <<foreignAction("setCurrentQuery", prev.queries.current),
      foreignAction("setPanels", prev.panels),
      foreignAction("setPanelFilterActiveStates", prev.panelFilters)>>

\* the reducers of the query, panel and panel-filter state: each action
\* replaces the part of the active state it names
Reduce(state, action) ==
    IF action.type = "setCurrentQuery"
    THEN [state EXCEPT !.currentQuery = action.arg]
    ELSE IF action.type = "setPanels"
    THEN [state EXCEPT !.panels = action.arg]
    ELSE IF action.type = "setPanelFilterActiveStates"
    THEN [state EXCEPT !.panelFilters = action.arg]
    ELSE state

RECURSIVE ReduceAll(_, _)
ReduceAll(state, actions) ==
    IF actions = <<>> THEN state
    ELSE ReduceAll(Reduce(state, Head(actions)), Tail(actions))

\* the confirmation is on screen: it was dispatched (session.ts:309) and
\* the user has not answered it
ModalShown ==
    /\ modalChoice = "none"
    /\ dispatched # <<>>
    /\ dispatched[Len(dispatched)].type = "showConfirmationModal"

\* the user chooses "yes": onClickYes runs, session.ts:293-297
ClickYes ==
    /\ ModalShown
    /\ LET acts == onClickYes(dispatched[Len(dispatched)].arg.onClickYes)
       IN /\ dispatched' = dispatched \o acts
          /\ active' = ReduceAll(active, acts)
    /\ modalChoice' = "yes"
    /\ UNCHANGED <<pc, attestation, userContext, ctx, homeBase, fanoutVars, prevStore,
                   logoutVars, storeContext, refreshVars>>

\* the user chooses "no": onClickNo is () => null, session.ts:303
ClickNo ==
    /\ ModalShown
    /\ modalChoice' = "no"
    /\ UNCHANGED <<bootVars, logoutVars, storeContext, refreshVars, active>>

(***************************************************************************)
(* refreshSession, session.ts:181-187                                      *)
(***************************************************************************)
\* session.ts:183-184, up to the await; the timer that calls it is outside
RefreshSessionBegin ==
    /\ rpc = "idle"
    /\ refreshes < MaxRefreshes
    /\ refreshes' = refreshes + 1
    /\ rpc' = "refreshSessionTokenAndContext"
    /\ UNCHANGED <<bootVars, logoutVars, storeContext, uiVars>>

\* session.ts:184-185: the new context replaces the stored one
RefreshSessionResolved ==
    /\ rpc = "refreshSessionTokenAndContext"
    /\ \E c \in SessionContexts :
        /\ dispatched' = dispatched \o <<setSessionContext(c)>>
        /\ storeContext' = c
    /\ rpc' = "idle"
    /\ UNCHANGED <<pc, attestation, userContext, ctx, homeBase, fanoutVars, prevStore,
                   logoutVars, refreshes, uiVars>>

\* session.ts:184: the await throws, nothing is dispatched
RefreshSessionRejected ==
    /\ rpc = "refreshSessionTokenAndContext"
    /\ rpc' = "idle"
    /\ UNCHANGED <<bootVars, logoutVars, storeContext, refreshes, uiVars>>

(***************************************************************************)
(* Specifications                                                          *)
(***************************************************************************)
\* logout is not running
LogoutIdle == LogoutInit([mechanism |-> "Saml2", logoutUri |-> NoUri], TRUE)

\* the active query state of a fresh client
FreshActive ==
    [currentQuery |-> "freshQuery", panels |-> "freshPanels",
     panelFilters |-> "freshPanelFilters"]

\* no session context yet, refreshSession not running, no confirmation
\* answered, a fresh query state
StoreInit ==
    /\ storeContext = Undefined
    /\ rpc = "idle"
    /\ refreshes = 0
    /\ modalChoice = "none"
    /\ active = FreshActive

\* attestAndLoadSession is not running
BootIdle ==
    BootInit([isIdentified |-> FALSE],
             [isAdmin |-> FALSE, isFederatedOkay |-> TRUE],
             [kind |-> "none"])

Init ==
    /\ \E att \in [isIdentified : BOOLEAN],
          uc \in [isAdmin : BOOLEAN, isFederatedOkay : BOOLEAN],
          store \in PrevStores : BootInit(att, uc, store)
    /\ LogoutIdle
    /\ StoreInit

Next ==
    \/ SubmitAttestation
    \/ GetSessionTokenAndContextResolved
    \/ FetchHomeIdentityAndRespondersResolved
    \/ \E k \in 1..MaxPartners : FetchResponderIdentityFulfilled(k)
    \/ \E k \in 1..MaxPartners : FetchResponderIdentityRejected(k)
    \/ \E k \in 1..MaxPartners : ResolveTask(k)
    \/ GetResponderIdentitiesReturned
    \/ GetExportOptionsResolved
    \/ GetImportOptionsResolved
    \/ RequestRootConceptsResolved
    \/ FetchAvailableDatasetsResolved
    \/ IndexDatasetsResolved
    \/ GetSavedQueriesResolved
    \/ GetExtensionRootConceptsResolved
    \/ InitializeSearchEngineResolved
    \/ AwaitRejected

\* a run of attestAndLoadSession
Spec == Init /\ [][Next]_vars

\* a run of attestAndLoadSession in which the error-reporting call for a
\* failed partner may itself fail
ReporterFailNext ==
    \/ Next
    \/ \E k \in 1..MaxPartners : FetchResponderIdentityRejectedReporterThrows(k)

ReporterFailSpec == Init /\ [][ReporterFailNext]_vars

\* a run of attestAndLoadSession followed by the user's answer to the
\* resume confirmation
ResumeNext ==
    \/ Next
    \/ ClickYes
    \/ ClickNo

ResumeSpec == Init /\ [][ResumeNext]_vars

\* a run of attestAndLoadSession with an identified attestation (no
\* fan-out), during which the refresh timer fires
RefreshSpecInit ==
    /\ BootInit([isIdentified |-> TRUE],
                [isAdmin |-> FALSE, isFederatedOkay |-> TRUE],
                [kind |-> "none"])
    /\ LogoutIdle
    /\ StoreInit

RefreshNext ==
    \/ SubmitAttestation
    \/ GetSessionTokenAndContextResolved
    \/ FetchHomeIdentityAndRespondersResolved
    \/ GetResponderIdentitiesReturned
    \/ GetExportOptionsResolved
    \/ GetImportOptionsResolved
    \/ RequestRootConceptsResolved
    \/ FetchAvailableDatasetsResolved
    \/ IndexDatasetsResolved
    \/ GetSavedQueriesResolved
    \/ GetExtensionRootConceptsResolved
    \/ InitializeSearchEngineResolved
    \/ AwaitRejected
    \/ RefreshSessionBegin
    \/ RefreshSessionResolved
    \/ RefreshSessionRejected

RefreshSpec == RefreshSpecInit /\ [][RefreshNext]_vars

LogoutSpecInit ==
    /\ BootIdle
    /\ StoreInit
    /\ \E cfg \in AuthConfigs, token \in BOOLEAN : LogoutInit(cfg, token)

LogoutNext ==
    \/ LogoutBegin
    \/ LogoutFromServerSettles
    \/ LogoutFromServerReturned

\* a run of logout
LogoutSpec == LogoutSpecInit /\ [][LogoutNext]_vars

TypeOK ==
    /\ pc \in RejectableAwaits \cup {"start", "getResponderIdentities", "done", "error"}
    /\ Len(responders) <= MaxPartners + 1
    /\ lpc \in {"start", "logoutFromServer", "done"}

(***************************************************************************)
(* Properties of getResponderIdentities                                    *)
(***************************************************************************)
\* getResponderIdentities has returned
Returned == returned # <<>>

\* number of partner descriptors the home server configured
ConfiguredPartners ==
    IF homeBase # Undefined /\ "responders" \in DOMAIN homeBase
    THEN Len(homeBase.responders) ELSE 0

\* the attestation is de-identified and the user may run federated queries
FederationAllowed == ~attestation.isIdentified /\ userContext.isFederatedOkay

\* C1: when the attestation is de-identified and federation is allowed, the
\* returned list holds exactly 1 + (number of fulfilled partner fetches)
\* identities and its first element is the home identity, whose id is 0,
\* whatever the number of partners and whichever of them failed.
C1_HomeFirstAndCount ==
    (Returned /\ FederationAllowed) =>
        /\ Len(returned) = 1 + Cardinality(succeeded)
        /\ returned[1] = homeBase.identity
        /\ returned[1].id = 0
        /\ returned[1].isHomeNode

\* a fan-out over at least two partners returned after exactly one failure
C1_Witness ==
    /\ Returned /\ FederationAllowed
    /\ ConfiguredPartners >= 2
    /\ Cardinality(failed) = 1
    /\ Cardinality(succeeded) = ConfiguredPartners - 1

\* the policy gate is closed: identified attestation, federation not
\* allowed, or no configured partner
PolicyGateClosed ==
    \/ attestation.isIdentified
    \/ ~userContext.isFederatedOkay
    \/ (homeBase # Undefined /\ "responders" \in DOMAIN homeBase
        /\ Len(homeBase.responders) = 0)

\* C2: with the policy gate closed no partner fetch is ever launched, and
\* the value returned is the home identity alone.
C2_PolicyGate ==
    PolicyGateClosed =>
        /\ fetched = <<>>
        /\ task = <<>>
        /\ succeeded = {} /\ failed = {}
        /\ Returned => returned = <<homeBase.identity>>

\* an identified attestation returned with several partners configured
C2_Witness ==
    /\ Returned
    /\ attestation.isIdentified /\ userContext.isFederatedOkay
    /\ ConfiguredPartners >= 2
    /\ pc = "done"

\* C3: in the returned list the ids of the non-home entries are pairwise
\* distinct and lie in 1..N, N the number of configured partners.
C3_DistinctIdsInRange ==
    Returned =>
        /\ \A i \in 2..Len(returned) : returned[i].id \in 1..ConfiguredPartners
        /\ \A i, j \in 2..Len(returned) :
               i # j => returned[i].id # returned[j].id

\* every partner answered, and not in the order of the configuration
C3_Witness ==
    /\ Returned
    /\ Len(returned) = ConfiguredPartners + 1
    /\ ConfiguredPartners >= 2
    /\ returned[2].id > returned[3].id

\* C4: failures are isolated: every partner whose fetch was fulfilled is in
\* the returned list, and a run in which a partner fetch was rejected ends
\* in the catch block only after getResponderIdentities returned normally.
C4_FailureIsolation ==
    /\ Returned =>
          \A k \in succeeded :
              \E i \in 2..Len(returned) : returned[i].name = ResponseData(k).name
    /\ (failed # {} /\ pc = "error") => Returned
    /\ (failed # {} /\ pc \notin {"getResponderIdentities", "error"}) => Returned

\* two partners failed, another succeeded, and the whole run completed
C4_Witness ==
    /\ pc = "done"
    /\ Cardinality(failed) >= 2
    /\ succeeded # {}
    /\ Len(returned) = 1 + Cardinality(succeeded)

(***************************************************************************)
(* Properties of attestAndLoadSession                                      *)
(***************************************************************************)
Last(seq) == seq[Len(seq)]

Front(seq) == SubSeq(seq, 1, Len(seq) - 1)

\* the SET_SESSION_LOAD_STATE actions dispatched so far, in order
LoadStates == SelectSeq(dispatched, LAMBDA a : a.type = SET_SESSION_LOAD_STATE)

\* the progress values a subscriber has observed so far
Progress ==
    [i \in 1..Len(LoadStates) |-> LoadStates[i].sessionLoadProgressPercent]

NonDecreasing(seq) == \A i \in 1..(Len(seq) - 1) : seq[i] <= seq[i + 1]

\* the run ended without entering the catch block / in the catch block
RunSucceeded == pc = "done"

RunFailed == pc = "error"

\* an action of the given type has been dispatched
Dispatched(type) == \E i \in 1..Len(dispatched) : dispatched[i].type = type

\* C5: the progress values dispatched by a run are non-decreasing as long
\* as no stage has failed; a run that succeeds ends at 100; a run in which
\* a stage fails ends at 0, the values before that 0 being non-decreasing.
C5_ProgressMonotone ==
    /\ ~RunFailed => NonDecreasing(Progress)
    /\ RunSucceeded => Last(Progress) = 100
    /\ RunFailed => /\ Last(Progress) = 0
                    /\ NonDecreasing(Front(Progress))

\* a run succeeded having reported all ten progress values
C5_Witness ==
    /\ RunSucceeded
    /\ Progress = <<5, 10, 20, 30, 40, 50, 60, 70, 80, 100>>

\* the load states of the stages, in stage order
StageLoadStates ==
    <<setSessionLoadState("Submitting Attestation", 5),
      setSessionLoadState("Finding Home Leaf server", 10),
      setSessionLoadState("Finding Partner Leaf servers", 20),
      setSessionLoadState("Loading Export options", 30),
      setSessionLoadState("Loading Import options", 40),
      setSessionLoadState("Loading Concepts", 50),
      setSessionLoadState("Loading Patient List Datasets", 60),
      setSessionLoadState("Loading Saved Queries", 70),
      setSessionLoadState("Loading Extension Concepts", 80),
      setSessionLoadState("Initializing Search Engine", 100)>>

\* the two actions that end a failed run
FailureEnding ==
    <<[sessionLoadDisplay |-> ErrorMessage, sessionLoadProgressPercent |-> 0,
       type |-> SET_SESSION_LOAD_STATE],
      [error |-> TRUE, type |-> ERROR_ATTESTATION]>>

\* C6: a run in which a stage failed has dispatched the load states of the
\* stages up to the failed one, each once, and then, last, the load state
\* (operator-contact message, 0) followed by ERROR_ATTESTATION with error =
\* TRUE; after that the run takes no further step: no later stage runs,
\* nothing more is dispatched, no fetch is issued, the stage is not retried.
C6_FailureAborts ==
    /\ [](RunFailed =>
            /\ Len(dispatched) >= 2
            /\ SubSeq(dispatched, Len(dispatched) - 1, Len(dispatched)) = FailureEnding
            /\ Front(LoadStates) = SubSeq(StageLoadStates, 1, Len(LoadStates) - 1)
            /\ \A i \in 1..(Len(dispatched) - 1) :
                   dispatched[i].type # ERROR_ATTESTATION)
    /\ [][RunFailed => UNCHANGED bootVars]_vars

\* stage 5 (import options) failed after stages 1-4 had dispatched results
C6_Witness ==
    /\ RunFailed
    /\ Progress = <<5, 10, 20, 30, 40, 0>>
    /\ Returned

(***************************************************************************)
(* Properties of handleSessionReload                                       *)
(***************************************************************************)
\* a resume confirmation has been dispatched
ConfirmationDispatched == Dispatched("showConfirmationModal")

\* whole minutes between the snapshot's timestamp and now: the whole
\* seconds elapsed, divided by 60 and rounded down
ElapsedWholeMinutes == ((NowMillis \div 1000) - prevStore.session.timestamp) \div 60

LogoutDone == lpc = "done"

\* the server answered logoutFromServer with a logout URI
ServerReturnedUri ==
    /\ loggedOut # Undefined
    /\ loggedOut.kind = "object"
    /\ Truthy(loggedOut.logoutURI)

\* C7: at the end of logout the client is redirected to the URI the server
\* returned if it returned one; otherwise to the configured URI if one is
\* configured; it is reloaded only if neither is available.
C7_RedirectSelection ==
    LogoutDone =>
        IF ServerReturnedUri
        THEN location = [kind |-> "assigned", uri |-> loggedOut.logoutURI]
        ELSE IF Truthy(config.logoutUri)
        THEN location = [kind |-> "assigned", uri |-> config.logoutUri]
        ELSE location = [kind |-> "reload"]

\* the server-side logout failed: logoutFromServer returned null
ServerLogoutFailed == loggedOut = [kind |-> "null"] /\ ~blacklisted

\* C8: with a secured mechanism, when the server-side logout fails, logout
\* still clears the cached token and still redirects to the configured URI
\* or, without one, reloads.
C8_CleanupDespiteFailure ==
    (LogoutDone /\ IsSecured(config) /\ ServerLogoutFailed) =>
        /\ ~cachedToken
        /\ clearCalls = 1
        /\ IF Truthy(config.logoutUri)
           THEN location = [kind |-> "assigned", uri |-> config.logoutUri]
           ELSE location = [kind |-> "reload"]

\* the server-side logout failed and the client went to the configured URI
C8_Witness ==
    /\ LogoutDone /\ IsSecured(config) /\ ServerLogoutFailed
    /\ location = [kind |-> "assigned", uri |-> "https://app.example/bye"]

\* C9: with the unsecured mechanism logout never calls the server-side
\* logout and never clears (or otherwise changes) the cached token, and it
\* ends in exactly one of a redirect to the configured URI, when there is
\* one, or a reload.
C9_UnsecuredLogout ==
    /\ [](config.mechanism = Unsecured =>
            /\ serverCalls = 0 /\ reply = Undefined /\ ~blacklisted
            /\ clearCalls = 0
            /\ LogoutDone =>
                  IF Truthy(config.logoutUri)
                  THEN location = [kind |-> "assigned", uri |-> config.logoutUri]
                  ELSE location = [kind |-> "reload"])
    /\ [][config.mechanism = Unsecured => UNCHANGED cachedToken]_vars

\* an unsecured logout without a configured URI reloaded, token untouched
C9_Witness ==
    /\ LogoutDone
    /\ config.mechanism = Unsecured
    /\ location = [kind |-> "reload"]
    /\ cachedToken

(***************************************************************************)
(* Properties of the continuity offer's text and of the resume choice      *)
(***************************************************************************)
\* the confirmation that was dispatched (the argument of the last
\* showConfirmationModal)
OfferedConfirmation ==
    LET i == CHOOSE j \in 1..Len(dispatched) :
                 dispatched[j].type = "showConfirmationModal"
    IN dispatched[i].arg

\* the body of a confirmation whose embedded text is `text`
BodyWith(text) ==
    <<"Do you want to resume your previous session (saved ", text, ")?">>

\* C11: the text embedded in a dispatched offer is "less than a minute ago"
\* when the elapsed whole minutes m are 0, "about 1 minute ago" when m = 1,
\* and "about m minutes ago" for every other offered m.
C11_DisplayString ==
    (ConfirmationDispatched /\ prevStore.kind = "saved") =>
        LET m == ElapsedWholeMinutes
        IN /\ m = 0 => OfferedConfirmation.body = BodyWith(<<"less than a minute ago">>)
           /\ m = 1 => OfferedConfirmation.body = BodyWith(<<"about 1 minute ago">>)
           /\ m \notin {0, 1} =>
                 OfferedConfirmation.body = BodyWith(<<"about ", m, " minutes ago">>)

\* a snapshot 45 minutes old was offered as "about 45 minutes ago"
C11_Witness ==
    /\ ConfirmationDispatched
    /\ prevStore.kind = "saved"
    /\ ElapsedWholeMinutes = 45
    /\ OfferedConfirmation.body = BodyWith(<<"about ", 45, " minutes ago">>)

\* the previous-session snapshot
Snapshot == prevStore.session

\* C12: choosing "yes" dispatches setCurrentQuery, setPanels and
\* setPanelFilterActiveStates with the snapshot's values, which makes the
\* active current query, panel set and panel-filter states those of the
\* snapshot, and changes nothing else; choosing "no" dispatches nothing and
\* leaves all session state unchanged.
C12_ResumeChoice ==
    /\ [](modalChoice = "yes" =>
            active = [currentQuery |-> Snapshot.queries.current,
                      panels |-> Snapshot.panels,
                      panelFilters |-> Snapshot.panelFilters])
    /\ [](modalChoice \in {"none", "no"} => active = FreshActive)
    /\ [][(modalChoice = "none" /\ modalChoice' = "yes") =>
            /\ dispatched' = dispatched \o
                  <<[type |-> "setCurrentQuery", arg |-> Snapshot.queries.current],
                    [type |-> "setPanels", arg |-> Snapshot.panels],
                    [type |-> "setPanelFilterActiveStates",
                     arg |-> Snapshot.panelFilters]>>
            /\ UNCHANGED <<pc, attestation, userContext, ctx, homeBase, fanoutVars,
                           prevStore, logoutVars, storeContext, refreshVars>>]_vars
    /\ [][(modalChoice = "none" /\ modalChoice' = "no") =>
            UNCHANGED <<bootVars, logoutVars, storeContext, refreshVars, active>>]_vars

\* the user resumed: the active state is the snapshot's
C12_Witness ==
    /\ modalChoice = "yes"
    /\ active.currentQuery = "prevQuery"
    /\ active.panels = "prevPanels"
    /\ active.panelFilters = "prevPanelFilters"
    /\ Last(dispatched).type = "setPanelFilterActiveStates"

(***************************************************************************)
(* Properties of the fan-out: addresses, ids, barrier, error reports       *)
(***************************************************************************)
\* the address the home server configured for the partner at position k
ConfiguredAddress(k) == PartnerAddress(k)

\* the entries of a list of identities that answer for partner k
EntriesOf(list, k) == {i \in 2..Len(list) : list[i].name = ResponseData(k).name}

\* C13: the address a partner is requested at is its configured address
\* with exactly one trailing "/" removed if there is one, and unchanged
\* otherwise; the descriptor and the partner's entry in the result carry
\* that same address; so X + "/" is requested and recorded as X is.
C13_TrailingSlash ==
    /\ \A k \in DOMAIN fetched :
          LET a == ConfiguredAddress(k)
              endsInSlash == a # <<>> /\ a[Len(a)] = "/"
          IN /\ endsInSlash => a = fetched[k] \o <<"/">>
             /\ ~endsInSlash => a = fetched[k]
             /\ homeBase.responders[k].address = fetched[k]
             /\ \A i \in EntriesOf(responders, k) : responders[i].address = fetched[k]
    /\ \A k, l \in DOMAIN fetched :
          ConfiguredAddress(k) = ConfiguredAddress(l) \o <<"/">>
          /\ ConfiguredAddress(l) # <<>> /\ Last(ConfiguredAddress(l)) # "/"
              => fetched[k] = fetched[l]

\* "a/", "a" and "c//" were requested as "a", "a" and "c/" and all answered
C13_Witness ==
    /\ Returned
    /\ Len(returned) = 4
    /\ fetched[1] = <<"a">> /\ fetched[2] = <<"a">> /\ fetched[3] = <<"c", "/">>
    /\ \A k \in 1..3 : \E i \in EntriesOf(returned, k) : returned[i].address = fetched[k]

\* C14 as stated: a responder's id is its position among the completed
\* fan-out tasks plus 1, so that (no task having failed) the entry at list
\* position i, the (i - 1)-th to complete, has id i - 1.
C14_IdsFollowCompletionOrder ==
    (Returned /\ failed = {}) =>
        \A i \in 2..Len(returned) : returned[i].id = i - 1

\* C14 amended: a responder's id is the position of its descriptor in the
\* configured list (map index + 1), whatever the completion order, and
\* none other; only the order of the list follows completion.
C14_IdsFollowConfiguredPosition ==
    /\ \A k \in succeeded :
          /\ EntriesOf(responders, k) # {}
          /\ \A i \in EntriesOf(responders, k) : responders[i].id = k
    /\ Returned =>
          \A k \in succeeded : \A i \in EntriesOf(returned, k) : returned[i].id = k

\* the partner configured last answered first and still has the last id
C14_Witness ==
    /\ Returned
    /\ ConfiguredPartners >= 2
    /\ Len(returned) = ConfiguredPartners + 1
    /\ returned[2].name = ConfiguredPartners
    /\ returned[2].id = ConfiguredPartners

\* C15: all partner fetches are launched together, before any of them is
\* awaited or settles; getResponderIdentities returns, and stage 3
\* dispatches the responder set, only once every launched fetch has
\* settled, by success or by failure, and its promise has been resolved.
C15_WaitForAll ==
    /\ fetched # <<>> =>
          /\ DOMAIN fetched = 1..ConfiguredPartners
          /\ DOMAIN task = DOMAIN fetched
    /\ (succeeded \cup failed) \subseteq DOMAIN fetched
    /\ Returned =>
          /\ \A k \in DOMAIN fetched : task[k] = "resolved"
          /\ succeeded \cup failed = DOMAIN fetched
    /\ Dispatched("setResponders") => Returned
    /\ (pc \notin {"start", "getSessionTokenAndContext", "fetchHomeIdentityAndResponders",
                   "getResponderIdentities", "error"}) => Returned

\* stage 3 dispatched the responder set after a fan-out in which a partner
\* failed and another succeeded
C15_Witness ==
    /\ pc = "getExportOptions"
    /\ Dispatched("setResponders")
    /\ failed # {} /\ succeeded # {}
    /\ succeeded \cup failed = 1..MaxPartners

\* the ERROR_RESPONDER actions with the given id that reached the store
ReportsDispatched(id) ==
    {i \in 1..Len(dispatched) :
        dispatched[i].type = "ERROR_RESPONDER" /\ dispatched[i].id = id}

\* the ERROR_RESPONDER actions with the given id that errorResponder built
ReportsBuilt(id) == {i \in 1..Len(errorReports) : errorReports[i].id = id}

\* C16: once getResponderIdentities has returned, every partner whose
\* fetch failed has been reported exactly once, under its configured id, to
\* the subscribers of the store, and has no entry in the returned list.
C16_FailuresReported ==
    Returned =>
        \A k \in failed :
            /\ Cardinality(ReportsDispatched(homeBase.responders[k].id)) = 1
            /\ EntriesOf(returned, k) = {}

(***************************************************************************)
(* Properties of the order of the stages                                   *)
(***************************************************************************)
\* the types of the actions a complete run dispatches, in order; the admin
\* identity and the confirmation are dispatched in some runs only
ExpectedTypes ==
    <<SET_SESSION_LOAD_STATE, SUBMIT_ATTESTATION, SET_ACCESS_TOKEN,
      "setUserInquiryState", SET_SESSION_LOAD_STATE>>
    \o (IF userContext.isAdmin THEN <<"setAdminNetworkIdentity">> ELSE <<>>)
    \o <<SET_SESSION_LOAD_STATE, "setResponders", "registerNetworkCohorts",
         SET_SESSION_LOAD_STATE, "setExportOptions",
         SET_SESSION_LOAD_STATE, "setImportOptions",
         SET_SESSION_LOAD_STATE,
         SET_SESSION_LOAD_STATE, "setDatasets",
         SET_SESSION_LOAD_STATE, "addSavedQueries",
         SET_SESSION_LOAD_STATE, "setExtensionRootConcepts",
         SET_SESSION_LOAD_STATE,
         COMPLETE_ATTESTATION, "showConfirmationModal">>

\* what the run dispatched before it entered the catch block, if it did
StageLog ==
    IF RunFailed THEN SubSeq(dispatched, 1, Len(dispatched) - 2) ELSE dispatched

\* the number of the stage whose request the run is waiting for
StageInFlight ==
    CASE pc = "getSessionTokenAndContext" -> 1
      [] pc = "fetchHomeIdentityAndResponders" -> 2
      [] pc = "getResponderIdentities" -> 3
      [] pc = "getExportOptions" -> 4
      [] pc = "getImportOptions" -> 5
      [] pc = "requestRootConcepts" -> 6
      [] pc \in {"fetchAvailableDatasets", "indexDatasets"} -> 7
      [] pc = "getSavedQueries" -> 8
      [] pc = "getExtensionRootConcepts" -> 9
      [] pc = "initializeSearchEngine" -> 10
      [] OTHER -> 0

\* C17: the stages run in the fixed order, with load states 5, 10, 20, 30,
\* 40, 50, 60, 70, 80, 100: what a run dispatches is a prefix of the fixed
\* sequence in which each stage's load state precedes its result and each
\* result precedes the next load state; while the request of stage n is
\* awaited, the last action dispatched is the load state of stage n (in
\* stage 1, that load state and SUBMIT_ATTESTATION), so that no later stage
\* has begun; partner fetches are in flight in stage 3 only.
C17_StageOrder ==
    /\ Len(StageLog) <= Len(ExpectedTypes)
    /\ \A i \in 1..Len(StageLog) : StageLog[i].type = ExpectedTypes[i]
    /\ LET shown == SelectSeq(StageLog, LAMBDA a : a.type = SET_SESSION_LOAD_STATE)
       IN /\ Len(shown) <= Len(StageLoadStates)
          /\ shown = SubSeq(StageLoadStates, 1, Len(shown))
          /\ StageInFlight # 0 =>
                /\ Len(shown) = StageInFlight
                /\ IF StageInFlight = 1
                   THEN dispatched = <<StageLoadStates[1], submitAttestation(attestation)>>
                   ELSE Last(dispatched) = StageLoadStates[StageInFlight]
    /\ (\E k \in DOMAIN task : task[k] # "resolved") => pc = "getResponderIdentities"

\* an administrator's run went through all stages and offered to resume
C17_Witness ==
    /\ pc = "done"
    /\ userContext.isAdmin
    /\ Len(dispatched) = Len(ExpectedTypes)
    /\ succeeded # {}

(***************************************************************************)
(* Properties of the terminal outcome                                      *)
(***************************************************************************)
\* the positions in the stream of the actions of the given type
Positions(type) == {i \in 1..Len(dispatched) : dispatched[i].type = type}

\* the position of the SET_ACCESS_TOKEN that stage 1 dispatched: the one
\* followed at once by setUserInquiryState (session.ts:65-66)
Stage1ContextPositions ==
    {j \in Positions(SET_ACCESS_TOKEN) :
        j < Len(dispatched) /\ dispatched[j + 1].type = "setUserInquiryState"}

\* C18: the nonce of every COMPLETE_ATTESTATION is the access nonce of the
\* context stage 1 of the run obtained and dispatched, whatever contexts
\* refreshSession has put into the store since.
C18_NonceOfStage1 ==
    \A i \in Positions(COMPLETE_ATTESTATION) :
        /\ Cardinality(Stage1ContextPositions) = 1
        /\ \A j \in Stage1ContextPositions :
              /\ j < i
              /\ ~NonceThrows(dispatched[j].context)
              /\ dispatched[i].nonce = dispatched[j].context.rawDecoded.accessNonce

\* the run completed with nonce n1 after a refresh had stored a context
\* whose nonce is n2
C18_Witness ==
    /\ pc = "done"
    /\ \E i \in Positions(COMPLETE_ATTESTATION) : dispatched[i].nonce = "n1"
    /\ storeContext = [token |-> "t2", rawDecoded |-> [accessNonce |-> "n2"]]
    /\ \E j \in Positions(SET_ACCESS_TOKEN) :
          /\ j \notin Stage1ContextPositions
          /\ j < Len(dispatched)

\* progress was reset to 0 after the attestation was marked complete
ResetAfterComplete ==
    \E i \in Positions(COMPLETE_ATTESTATION) :
        \E j \in Positions(SET_SESSION_LOAD_STATE) :
            j > i /\ dispatched[j].sessionLoadProgressPercent = 0

\* C19 as stated: COMPLETE_ATTESTATION and ERROR_ATTESTATION are never both
\* dispatched in a run, and progress is never reset to 0 after the
\* attestation has been marked complete.
C19_ExclusiveOutcome ==
    /\ ~(Dispatched(COMPLETE_ATTESTATION) /\ Dispatched(ERROR_ATTESTATION))
    /\ ~ResetAfterComplete

\* C19 amended: each of COMPLETE_ATTESTATION and ERROR_ATTESTATION is
\* dispatched at most once; both are dispatched, and progress is reset to 0
\* after completion, only when the continuity step throws, and then the run
\* ends with COMPLETE_ATTESTATION, the load state (message, 0) and
\* ERROR_ATTESTATION, in this order.
C19_ExclusiveUnlessContinuityFails ==
    /\ Cardinality(Positions(COMPLETE_ATTESTATION)) <= 1
    /\ Cardinality(Positions(ERROR_ATTESTATION)) <= 1
    /\ ~PrevSessionThrows(prevStore) =>
          /\ ~(Dispatched(COMPLETE_ATTESTATION) /\ Dispatched(ERROR_ATTESTATION))
          /\ ~ResetAfterComplete
    /\ (Dispatched(COMPLETE_ATTESTATION) /\ Dispatched(ERROR_ATTESTATION)) =>
          /\ RunFailed
          /\ Len(dispatched) >= 3
          /\ dispatched[Len(dispatched) - 2].type = COMPLETE_ATTESTATION
          /\ SubSeq(dispatched, Len(dispatched) - 1, Len(dispatched)) = FailureEnding
    /\ ResetAfterComplete => Dispatched(ERROR_ATTESTATION)

\* getPrevSession threw after the attestation had been marked complete
C19_Witness ==
    /\ RunFailed
    /\ PrevSessionThrows(prevStore)
    /\ Dispatched(COMPLETE_ATTESTATION)
    /\ Dispatched(ERROR_ATTESTATION)
    /\ ResetAfterComplete

\* attestAndLoadSession reached a terminal outcome
TerminalOutcome == pc \in {"done", "error"}

\* C20: provided every network call settles, every run of
\* attestAndLoadSession reaches a terminal outcome, so a run that has not
\* reached one can always take a step; in particular the fan-out barrier
\* returns when the error-reporting call for a failed partner fails.
C20_Terminates == TerminalOutcome \/ ENABLED ReporterFailNext

\* with an error-reporting call that never fails, a run that has not
\* reached a terminal outcome can always take a step
TerminatesWhenReporterWorks == TerminalOutcome \/ ENABLED Next

\* the minutes handleSessionReload computes for the snapshot
OfferMinutes == DiffMinutes(NowMillis, Snapshot.timestamp)

\* the three documented forms of the offer's text, with a count that is
\* not negative
DocumentedTexts ==
    { <<"less than a minute ago">>, <<"about 1 minute ago">> }
    \cup { <<"about ", n, " minutes ago">> : n \in 0..479 }

\* C21: whenever a continuity offer is dispatched, the elapsed whole minutes
\* it is computed from are in 0..479 and its text is one of the three
\* documented forms with a non-negative count; a snapshot whose timestamp
\* lies in the future never results in an offer.
C21_OfferRange ==
    prevStore.kind = "saved" =>
        /\ ConfirmationDispatched =>
              /\ OfferMinutes \in 0..479
              /\ \E text \in DocumentedTexts :
                    OfferedConfirmation.body = BodyWith(text)
        /\ 1000 * Snapshot.timestamp > NowMillis => ~ConfirmationDispatched

\* every offer made for a snapshot that is not from the future is within
\* the range and has a documented text
OfferRangeWithoutFutureSnapshots ==
    (prevStore.kind = "saved" /\ 1000 * Snapshot.timestamp <= NowMillis
     /\ ConfirmationDispatched) =>
        /\ OfferMinutes \in 0..479
        /\ \E text \in DocumentedTexts :
              OfferedConfirmation.body = BodyWith(text)

====
